---- MODULE Spec2Model ----
(***************************************************************************)
(* Model of app.js (Daily Job Fetcher + AI Resume Toolkit): the text       *)
(* pipeline (cleanAndTokenize, extractKeywords), the TF-IDF / cosine       *)
(* scorer (semanticSimilarity, keywordMatchPercentage, finalMatchScore)    *)
(* and the server state (storedJobs, lastFetchAt) with the handlers that   *)
(* read or replace it (fetchJobs, POST /match, POST /upload-resume).       *)
(*                                                                         *)
(* A text is a sequence of one-character strings.  A JavaScript value that *)
(* may or may not be a string is a record [type, chars].  A JavaScript     *)
(* number that the scorer rounds to an integer is an integer, or NaN.      *)
(*                                                                         *)
(* The model starts with the module loaded and the server listening: it    *)
(* takes `const app = express()` (line 52) to come before the first        *)
(* app.use (line 51).                                                      *)
(***************************************************************************)
EXTENDS Integers, Sequences, FiniteSets, TLC

(***************************************************************************)
(* Bounds of the model.                                                    *)
(***************************************************************************)
\* words per text handed to extractKeywords in the function-level runs
MaxWords == 3
\* words per resume / job description in the scoring runs
MaxDocWords == 2
\* largest `limit` handed to extractKeywords in the function-level runs
MaxLimit == 3
\* length of the numeric vectors handed directly to cosineSimilarity
MaxVecLen == 2
\* raw jobs per (short) API response
MaxRespJobs == 1
\* fetchJobs calls awaiting axios at the same time
MaxFetches == 1
\* POST /upload-resume requests awaiting text extraction at the same time
MaxUploads == 1
\* the latest time new Date() shows when a fetch stamps lastFetchAt
MaxClock == 2

(***************************************************************************)
(* Characters.                                                             *)
(***************************************************************************)
LowerCase ==
  << "a","b","c","d","e","f","g","h","i","j","k","l","m",
     "n","o","p","q","r","s","t","u","v","w","x","y","z" >>

UpperCase ==
  << "A","B","C","D","E","F","G","H","I","J","K","L","M",
     "N","O","P","Q","R","S","T","U","V","W","X","Y","Z" >>

Digits == << "0","1","2","3","4","5","6","7","8","9" >>

Range(s) == { s[i] : i \in DOMAIN s }

IsLetter(c) == c \in Range(LowerCase) \cup Range(UpperCase)

IsDigit(c) == c \in Range(Digits)

\* value of a decimal digit character
DigitValue(c) == (CHOOSE i \in DOMAIN Digits : Digits[i] = c) - 1

\* String.prototype.toLowerCase on one character
ToLowerChar(c) ==
  IF c \in Range(UpperCase)
    THEN LowerCase[CHOOSE i \in DOMAIN UpperCase : UpperCase[i] = c]
    ELSE c

\* the characters the second replace of cleanAndTokenize keeps:
\* /[^a-zA-Z0-9 #+\-_.]/g rewrites every other character to a space
\* (the first replace, /[]+/g, has an empty class and matches nothing)
KeptByClean(c) == IsLetter(c) \/ IsDigit(c) \/ c \in {" ", "#", "+", "-", "_", "."}

CleanChar(c) == IF KeptByClean(c) THEN ToLowerChar(c) ELSE " "

\* natural.WordTokenizer splits on runs of characters outside [A-Za-z0-9_]
IsWordChar(c) == IsLetter(c) \/ IsDigit(c) \/ c = "_"

(***************************************************************************)
(* JavaScript values that reach the text pipeline.                         *)
(***************************************************************************)
JsStr(s) == [type |-> "string", chars |-> s]

JsNull == [type |-> "null", chars |-> << >>]

\* a truthy value that is not a string (an API field holding a number)
JsNumber == [type |-> "number", chars |-> << >>]

\* !v
Falsy(v) == v.type = "null" \/ (v.type = "string" /\ v.chars = << >>)

\* v || ''  (as in `job.description || ''`)
OrEmpty(v) == IF Falsy(v) THEN JsStr(<< >>) ELSE v

\* NaN, the one non-integer number the scorer can produce
NaN == -1

\* words natural.stopwords holds among those the model's texts use
stopWords == { <<"t","h","e">>, <<"a","n","d">> }

\* tokenizer.tokenize: the maximal runs of word characters, in order
Tokenize(s) ==
  LET starts == { i \in DOMAIN s :
                    IsWordChar(s[i]) /\ (i = 1 \/ ~IsWordChar(s[i - 1])) }
      ends   == { i \in DOMAIN s :
                    IsWordChar(s[i]) /\ (i = Len(s) \/ ~IsWordChar(s[i + 1])) }
      Nth(S, k) == CHOOSE i \in S : Cardinality({ j \in S : j < i }) = k - 1
  IN  [k \in 1..Cardinality(starts) |-> SubSeq(s, Nth(starts, k), Nth(ends, k))]

\* text.replace(...).replace(...).toLowerCase()
Lowered(s) == [i \in DOMAIN s |-> CleanChar(s[i])]

\* cleanAndTokenize throws (text.replace is not a function) on a truthy non-string
TokenizeThrows(v) == ~Falsy(v) /\ v.type # "string"

cleanAndTokenize(v) ==
  IF Falsy(v)
    THEN << >>
    ELSE SelectSeq(Tokenize(Lowered(v.chars)),
                   LAMBDA t : Len(t) > 2 /\ t \notin stopWords)

(***************************************************************************)
(* Plain objects used as maps ({} with keys assigned in a loop).           *)
(* An object is the sequence of its own entries [key, val] in insertion    *)
(* order.  Reading a key the object does not own reaches Object.prototype. *)
(***************************************************************************)
\* lower-case word tokens that name a property of Object.prototype
ObjectPrototypeKeys == { <<"c","o","n","s","t","r","u","c","t","o","r">> }

HasOwn(obj, k) == \E i \in DOMAIN obj : obj[i].key = k

OwnValue(obj, k) == obj[CHOOSE i \in DOMAIN obj : obj[i].key = k].val

\* x + n for a number n; a value that is not a number (the string that
\* `function + n` gives) stays one, and counts as NaN in arithmetic
JsAdd(x, n) == IF x = NaN THEN NaN ELSE x + n

\* obj[k] = (obj[k] || 0) + n
AddTo(obj, k, n) ==
  IF HasOwn(obj, k)
    THEN [i \in DOMAIN obj |->
            IF obj[i].key = k
              THEN [key |-> k, val |-> JsAdd(obj[i].val, n)]
              ELSE obj[i]]
    ELSE IF k \in ObjectPrototypeKeys
           THEN Append(obj, [key |-> k, val |-> NaN])
           ELSE Append(obj, [key |-> k, val |-> n])

\* tokens.forEach(t => { obj[t] = (obj[t] || 0) + weight }) from the i-th
\* token on, with weights[i] the weight of tokens[i]; each iteration works
\* on the object the one before it left (an object with a key is not empty)
RECURSIVE AddEach(_, _, _, _)
AddEach(obj, tokens, weights, i) ==
  IF i > Len(tokens) THEN obj
  ELSE LET next == AddTo(obj, tokens[i], weights[i])
       IN  IF Len(next) > 0 THEN AddEach(next, tokens, weights, i + 1) ELSE next

\* a canonical array index: decimal digits, no leading zero (tokens longer
\* than 9 digits are outside the model's texts)
IsArrayIndex(k) ==
  /\ Len(k) \in 1..9
  /\ \A i \in DOMAIN k : IsDigit(k[i])
  /\ (Len(k) > 1 => k[1] # "0")

RECURSIVE NumericValue(_)
NumericValue(k) ==
  IF k = << >> THEN 0
  ELSE 10 * NumericValue(SubSeq(k, 1, Len(k) - 1)) + DigitValue(k[Len(k)])

\* the entries whose keys are array indices, in ascending numeric order
RECURSIVE AscendingIndexEntries(_)
AscendingIndexEntries(es) ==
  IF es = << >> THEN << >>
  ELSE LET m == CHOOSE i \in DOMAIN es :
                  \A j \in DOMAIN es : NumericValue(es[i].key) <= NumericValue(es[j].key)
       IN  << es[m] >> \o
           AscendingIndexEntries(SubSeq(es, 1, m - 1) \o SubSeq(es, m + 1, Len(es)))

\* Object.entries(obj): integer keys first, ascending; then the other keys
\* in insertion order
ObjectEntries(obj) ==
  AscendingIndexEntries(SelectSeq(obj, LAMBDA e : IsArrayIndex(e.key)))
    \o SelectSeq(obj, LAMBDA e : ~IsArrayIndex(e.key))

(***************************************************************************)
(* Array.prototype.sort with a comparator (a, b) => num(b) - num(a), on an *)
(* array of [num, item] pairs (num: the number the comparator reads off    *)
(* the item).  Arrays here are shorter than 64, where V8 sorts by one      *)
(* binary insertion pass after the initial run; a comparator result of NaN *)
(* counts as 0.                                                            *)
(***************************************************************************)
\* comparefn(x, y) = num(y) - num(x), NaN read as +0
SortOrder(x, y) == IF x.num = NaN \/ y.num = NaN THEN 0 ELSE y.num - x.num

\* length of the initial run (ascending, or strictly descending) of arr
RECURSIVE RunLength(_, _, _)
RunLength(arr, idx, isDescending) ==
  IF idx > Len(arr) THEN idx - 1
  ELSE LET order == SortOrder(arr[idx], arr[idx - 1])
       IN  IF (isDescending /\ order >= 0) \/ (~isDescending /\ order < 0)
             THEN idx - 1
             ELSE RunLength(arr, idx + 1, isDescending)

Reverse(s) == [i \in DOMAIN s |-> s[Len(s) + 1 - i]]

RECURSIVE BinarySearch(_, _, _, _)
BinarySearch(arr, pivot, left, right) ==
  IF left < right
    THEN LET mid == left + ((right - left) \div 2)
         IN  IF SortOrder(pivot, arr[mid + 1]) < 0
               THEN BinarySearch(arr, pivot, left, mid)
               ELSE BinarySearch(arr, pivot, mid + 1, right)
    ELSE left

\* insert arr[start + 1] into the sorted prefix arr[1..start]
RECURSIVE BinaryInsertionSort(_, _)
BinaryInsertionSort(arr, start) ==
  IF start >= Len(arr) THEN arr
  ELSE LET pivot == arr[start + 1]
           pos   == BinarySearch(arr, pivot, 0, start)
       IN  BinaryInsertionSort(
             SubSeq(arr, 1, pos) \o << pivot >> \o SubSeq(arr, pos + 1, start)
               \o SubSeq(arr, start + 2, Len(arr)),
             start + 1)

ArraySort(arr) ==
  IF Len(arr) < 2 THEN arr
  ELSE LET isDescending == SortOrder(arr[2], arr[1]) < 0
           run == RunLength(arr, 3, isDescending)
           made == IF isDescending
                     THEN Reverse(SubSeq(arr, 1, run)) \o SubSeq(arr, run + 1, Len(arr))
                     ELSE arr
       IN  BinaryInsertionSort(made, run)

\* arr.slice(0, n) for n >= 0
Slice(arr, n) == SubSeq(arr, 1, IF n < Len(arr) THEN n ELSE Len(arr))

(***************************************************************************)
(* Keyword extraction.                                                     *)
(***************************************************************************)
ART_KEYWORDS ==
  { <<"c","o","n","c","e","p","t">>,
    <<"a","r","t","i","s","t">>,
    <<"c","h","a","r","a","c","t","e","r">>,
    <<"2","d">>,
    <<"i","l","l","u","s","t","r","a","t","i","o","n">>,
    <<"d","i","g","i","t","a","l">>,
    <<"p","a","i","n","t","i","n","g">>,
    <<"a","n","a","t","o","m","y">>,
    <<"s","t","y","l","i","z","e","d">>,
    <<"e","n","v","i","r","o","n","m","e","n","t">>,
    <<"s","k","e","t","c","h">>,
    <<"p","h","o","t","o","s","h","o","p">>,
    <<"p","r","o","c","r","e","a","t","e">>,
    <<"c","o","l","o","r">>,
    <<"l","i","g","h","t","i","n","g">>,
    <<"r","e","n","d","e","r">>,
    <<"v","i","s","u","a","l">>,
    <<"d","e","s","i","g","n">>,
    <<"c","o","m","p","o","s","i","t","i","o","n">>,
    <<"s","t","o","r","y">>,
    <<"i","d","e","a","t","i","o","n">> }

\* tokens.forEach(t => { const weight = ART_KEYWORDS.has(t) ? 4 : 1; ... })
KeywordFreq(tokens, freq) ==
  AddEach(freq, tokens,
          [i \in DOMAIN tokens |-> IF tokens[i] \in ART_KEYWORDS THEN 4 ELSE 1], 1)

extractKeywords(text, limit) ==
  LET freq   == KeywordFreq(cleanAndTokenize(text), << >>)
      entries == ObjectEntries(freq)
      \* .sort((a, b) => b[1] - a[1])
      sorted == ArraySort([i \in DOMAIN entries |->
                             [num |-> entries[i].val, item |-> entries[i].key]])
      top    == Slice(sorted, limit)
  IN  [i \in DOMAIN top |-> top[i].item]

(***************************************************************************)
(* Numbers of the TF-IDF scorer.                                           *)
(* With a corpus of two documents an IDF is ln(3/3) + 1 = 1 or             *)
(* ln(3/2) + 1 = L, so every vector entry, dot product and squared         *)
(* magnitude is a polynomial in L with integer coefficients: a number is   *)
(* [nan, p] with p the coefficients <<c0, c1, ...>> of c0 + c1*L + ...     *)
(* The arithmetic on them is exact; only Math.round evaluates L.           *)
(***************************************************************************)
Num(p) == [nan |-> FALSE, p |-> p]

NumInt(n) == Num(<< n >>)

NumNaN == [nan |-> TRUE, p |-> << >>]

Coef(p, i) == IF i \in DOMAIN p THEN p[i] ELSE 0

PolyAdd(p, q) ==
  [i \in 1..(IF Len(p) > Len(q) THEN Len(p) ELSE Len(q)) |-> Coef(p, i) + Coef(q, i)]

RECURSIVE SumTo(_, _)
SumTo(f, n) == IF n = 0 THEN 0 ELSE f[n] + SumTo(f, n - 1)

PolyMul(p, q) ==
  IF p = << >> \/ q = << >> THEN << >>
  ELSE [k \in 1..(Len(p) + Len(q) - 1) |->
          SumTo([i \in 1..Len(p) |-> p[i] * Coef(q, k + 1 - i)], Len(p))]

PolyIsZero(p) == \A i \in DOMAIN p : p[i] = 0

NumAdd(x, y) == IF x.nan \/ y.nan THEN NumNaN ELSE Num(PolyAdd(x.p, y.p))

NumMul(x, y) == IF x.nan \/ y.nan THEN NumNaN ELSE Num(PolyMul(x.p, y.p))

\* 1, L, L^2, L^3, L^4 for L = ln(1.5) + 1, in units of 10^-5
LPowers == << 100000, 140547, 197533, 277626, 390194 >>

\* the value of a polynomial in L, in units of 10^-5
PolyValue(p) == SumTo([i \in DOMAIN p |-> p[i] * LPowers[i]], Len(p))

\* floor(a * f1 * f2 * ... / b) for the factors fs, by long division (no
\* intermediate value exceeds max(a, 5 * b))
RECURSIVE MulDivFloor(_, _, _, _)
MulDivFloor(q, r, b, fs) ==
  IF fs = << >> THEN q
  ELSE MulDivFloor(q * Head(fs) + ((r * Head(fs)) \div b),
                   (r * Head(fs)) % b, b, Tail(fs))

ISqrt(n) == CHOOSE r \in 0..(n + 1) : r * r <= n /\ (r + 1) * (r + 1) > n

(***************************************************************************)
(* IEEE-754 double arithmetic for (matches / jobKeywords.length) * 100.    *)
(* A positive double is [limbs, exp]: its 53-bit significand as five       *)
(* digits in base 8192, most significant first (the first is 1, the other  *)
(* four hold 13 bits each), and the exponent of its last bit: the value is *)
(* significand * 2^exp.  Both operations round to nearest, ties to even.   *)
(***************************************************************************)
RECURSIVE Pow2(_)
Pow2(n) == IF n = 0 THEN 1 ELSE 2 * Pow2(n - 1)

\* limbs + 1, carrying to the left (the first limb takes the last carry)
RECURSIVE LimbsIncrement(_)
LimbsIncrement(limbs) ==
  LET n == Len(limbs)
  IN  IF n = 1 THEN << limbs[1] + 1 >>
      ELSE IF limbs[n] + 1 < 8192
             THEN [limbs EXCEPT ![n] = limbs[n] + 1]
             ELSE Append(LimbsIncrement(SubSeq(limbs, 1, n - 1)), 0)

\* the double with the given significand, rounded up when roundUp
RoundedDouble(limbs, exp, roundUp) ==
  LET up == IF roundUp THEN LimbsIncrement(limbs) ELSE limbs
  IN  IF up[1] = 2    \* the significand reached 2^53
        THEN [limbs |-> << 1, 0, 0, 0, 0 >>, exp |-> exp + 1]
        ELSE [limbs |-> up, exp |-> exp]

\* the least k with p * 2^k >= q
RECURSIVE LeadShift(_, _)
LeadShift(p, q) == IF p >= q THEN 0 ELSE 1 + LeadShift(2 * p, q)

\* the next digits (13 bits each) of r / q, r < q, and the remainder left
RECURSIVE QuotientLimbs(_, _, _)
QuotientLimbs(r, q, n) ==
  IF n = 0 THEN [limbs |-> << >>, rem |-> r]
  ELSE LET rest == QuotientLimbs((r * 8192) % q, q, n - 1)
       IN  [limbs |-> << (r * 8192) \div q >> \o rest.limbs, rem |-> rest.rem]

\* p / q as a double, for integers 0 < p <= q < 2^17
DoubleDivide(p, q) ==
  LET k    == LeadShift(p, q)
      frac == QuotientLimbs(p * Pow2(k) - q, q, 4)
  IN  RoundedDouble(<< 1 >> \o frac.limbs, (-52) - k,
                    \/ 2 * frac.rem > q
                    \/ (2 * frac.rem = q /\ frac.limbs[4] % 2 = 1))

\* limbs * k for a small integer k; the first limb takes the last carry
RECURSIVE LimbsTimes(_, _, _)
LimbsTimes(limbs, k, carry) ==
  LET n == Len(limbs)
      t == limbs[n] * k + carry
  IN  IF n = 1 THEN << t >>
      ELSE Append(LimbsTimes(SubSeq(limbs, 1, n - 1), k, t \div 8192), t % 8192)

\* limbs \div d for a small integer d: the digits of the quotient and the
\* remainder
RECURSIVE LimbsDivide(_, _, _)
LimbsDivide(limbs, d, carry) ==
  IF limbs = << >> THEN [limbs |-> << >>, rem |-> carry]
  ELSE LET t    == carry * 8192 + Head(limbs)
           rest == LimbsDivide(Tail(limbs), d, t % d)
       IN  [limbs |-> << t \div d >> \o rest.limbs, rem |-> rest.rem]

\* x * k as a double, for a double x and an integer k in 64..255
DoubleTimes(x, k) ==
  LET product == LimbsTimes(x.limbs, k, 0)
      \* the product has 6 bits too many, or 7
      cut     == IF product[1] < 128 THEN 6 ELSE 7
      kept    == LimbsDivide(product, Pow2(cut), 0)
      half    == Pow2(cut - 1)
  IN  RoundedDouble(kept.limbs, x.exp + cut,
                    \/ kept.rem > half
                    \/ (kept.rem = half /\ kept.limbs[5] % 2 = 1))

\* Math.round(x) = floor(x + 0.5) for a double 0 < x < 2^13
DoubleRound(x) ==
  LET \* floor(2x) = significand \div 2^s
      s      == (-x.exp) - 1
      top    == x.limbs[1] * 8192 + x.limbs[2]
      twice  == IF s >= 39 + 15 THEN 0 ELSE top \div Pow2(s - 39)
  IN  (twice + 1) \div 2

buildTermFreq(docTokens) ==
  AddEach(<< >>, docTokens, [i \in DOMAIN docTokens |-> 1], 1)

\* the distinct elements of a sequence in first-seen order (new Set(...))
Distinct(s) ==
  LET firsts == SelectSeq([i \in DOMAIN s |-> i],
                          LAMBDA i : \A j \in 1..(i - 1) : s[j] # s[i])
  IN  [k \in DOMAIN firsts |-> s[firsts[k]]]

\* seen.forEach(t => (df[t] = (df[t] || 0) + 1))
CountSeen(df, seen) == AddEach(df, seen, [i \in DOMAIN seen |-> 1], 1)

\* document frequencies: each document adds 1 for each of its distinct tokens
RECURSIVE DocFreq(_)
DocFreq(allDocsTokens) ==
  IF allDocsTokens = << >> THEN << >>
  ELSE CountSeen(DocFreq(SubSeq(allDocsTokens, 1, Len(allDocsTokens) - 1)),
                 Distinct(allDocsTokens[Len(allDocsTokens)]))

\* Math.log((N + 1) / (df + 1)) + 1 for the corpus sizes the program uses
SmoothedIdf(N, df) ==
  IF df = NaN THEN NumNaN
  ELSE IF N + 1 = df + 1 THEN Num(<< 1 >>)
  ELSE IF 2 * (N + 1) = 3 * (df + 1) THEN Num(<< 0, 1 >>)
  ELSE NumNaN

computeIdf(allDocsTokens) ==
  LET df == DocFreq(allDocsTokens)
      N  == Len(allDocsTokens)
  IN  [i \in DOMAIN df |-> [key |-> df[i].key, val |-> SmoothedIdf(N, df[i].val)]]

\* termFreq * (idf[term] || 0) for one term of the vocabulary
TfIdfEntry(tf, idf, term) ==
  LET termFreq == IF HasOwn(tf, term) THEN OwnValue(tf, term)
                  ELSE IF term \in ObjectPrototypeKeys THEN NaN
                  ELSE 0
      idfOwn   == IF HasOwn(idf, term) THEN OwnValue(idf, term) ELSE NumNaN
      idfOr0   == IF idfOwn.nan /\ (HasOwn(idf, term) \/ term \notin ObjectPrototypeKeys)
                    THEN NumInt(0) ELSE idfOwn
  IN  IF termFreq = NaN THEN NumNaN ELSE NumMul(NumInt(termFreq), idfOr0)

tfidfVector(docTokens, idf, vocab) ==
  LET tf == buildTermFreq(docTokens)
  IN  [i \in DOMAIN vocab |-> TfIdfEntry(tf, idf, vocab[i])]

\* s = 0; s += f[lo]; ...; s += f[hi] on numbers whose sum is exact, so
\* that the order of the additions does not show
RECURSIVE NumSum(_, _, _)
NumSum(f, lo, hi) ==
  IF lo > hi THEN NumInt(0)
  ELSE IF lo = hi THEN NumAdd(NumInt(0), f[lo])
  ELSE LET mid == (lo + hi) \div 2
       IN  NumAdd(NumSum(f, lo, mid), NumSum(f, mid + 1, hi))

\* a[i] * b[i] for i < a.length; b[i] is undefined past the end of b and
\* the product NaN
dotProduct(a, b) ==
  NumSum([i \in DOMAIN a |-> IF i \in DOMAIN b THEN NumMul(a[i], b[i]) ELSE NumNaN],
         1, Len(a))

\* the sum under the square root of magnitude(a)
SquaredMagnitude(a) == NumSum([i \in DOMAIN a |-> NumMul(a[i], a[i])], 1, Len(a))

\* Math.sqrt(s), kept as the number under the root
magnitude(a) == [sqrtOf |-> SquaredMagnitude(a)]

\* the quotient num / sqrt(radicand), or NaN
Quotient(num, radicand) == [nan |-> FALSE, num |-> num, radicand |-> radicand]

QuotientZero == Quotient(<< 0 >>, << 1 >>)

QuotientNaN == [nan |-> TRUE, num |-> << >>, radicand |-> << >>]

\* cosineSimilarity with the `denom === 0` test left out: 0 / 0 is NaN
cosineSimilarityUnguarded(vecA, vecB) ==
  LET denom == NumMul(magnitude(vecA).sqrtOf, magnitude(vecB).sqrtOf)
      dot   == dotProduct(vecA, vecB)
  IN  IF denom.nan \/ dot.nan \/ PolyIsZero(denom.p) THEN QuotientNaN
      ELSE Quotient(dot.p, denom.p)

cosineSimilarity(vecA, vecB) ==
  LET denom == [sqrtOf |-> NumMul(magnitude(vecA).sqrtOf, magnitude(vecB).sqrtOf)]
      dot   == dotProduct(vecA, vecB)
  IN  IF ~denom.sqrtOf.nan /\ PolyIsZero(denom.sqrtOf.p) THEN QuotientZero
      ELSE IF denom.sqrtOf.nan \/ dot.nan THEN QuotientNaN
      ELSE Quotient(dot.p, denom.sqrtOf.p)

\* Math.round(sim * 100) for sim >= 0: the n with
\* (2n - 1)^2 <= 40000 * num^2 / radicand < (2n + 1)^2
RoundPercent(sim) ==
  IF sim.nan THEN NaN
  ELSE LET a == PolyValue(PolyMul(sim.num, sim.num))
           b == PolyValue(sim.radicand)
           x == MulDivFloor(a \div b, a % b, b, << 5, 5, 5, 5, 4, 4, 4 >>)
       IN  (ISqrt(x) + 1) \div 2

semanticSimilarity(resumeText, jobDescription) ==
  LET resumeTokens == cleanAndTokenize(resumeText)
      jobTokens    == cleanAndTokenize(jobDescription)
      allDocs      == << resumeTokens, jobTokens >>
      idf          == computeIdf(allDocs)
      vocab        == Distinct(resumeTokens \o jobTokens)
      vecA         == tfidfVector(resumeTokens, idf, vocab)
      vecB         == tfidfVector(jobTokens, idf, vocab)
  IN  IF Len(resumeTokens) = 0 \/ Len(jobTokens) = 0 THEN 0
      ELSE RoundPercent(cosineSimilarity(vecA, vecB))

(***************************************************************************)
(* Hybrid match score.                                                     *)
(***************************************************************************)
JsArray(items) == [type |-> "array", items |-> items]

JsUndefined == [type |-> "undefined", items |-> << >>]

\* a || []  (as in `job.keywords || []`)
OrEmptyArray(a) == IF a.type = "array" THEN a ELSE JsArray(<< >>)

\* Math.round((matches / length) * 100)
RoundedPercentage(matches, length) ==
  IF matches = 0 THEN 0
  ELSE DoubleRound(DoubleTimes(DoubleDivide(matches, length), 100))

keywordMatchPercentage(resumeText, jobKeywords) ==
  IF jobKeywords.type # "array" \/ Len(jobKeywords.items) = 0 THEN 0
  ELSE LET resumeTokens == Range(cleanAndTokenize(resumeText))
           ks      == jobKeywords.items
           matches == Cardinality({ i \in DOMAIN ks : ks[i] \in resumeTokens })
       IN  RoundedPercentage(matches, Len(ks))

\* Math.round(kwScore * 0.4 + semScore * 0.6) for integers 0..100: the sum
\* is a multiple of 0.2 up to rounding error, never within reach of a half
WeightedRound(kwScore, semScore) == (4 * kwScore + 6 * semScore + 5) \div 10

finalMatchScore(resumeText, job) ==
  LET kwScore  == keywordMatchPercentage(resumeText, OrEmptyArray(job.keywords))
      semScore == semanticSimilarity(resumeText, OrEmpty(job.description))
      final    == IF semScore = NaN THEN NaN
                  ELSE WeightedRound(kwScore, semScore)
  IN  [final |-> final, kwScore |-> kwScore, semScore |-> semScore]

(***************************************************************************)
(* Ranking: the body shared by POST /match and POST /upload-resume.        *)
(***************************************************************************)
\* String(n) for an integer n >= 0
RECURSIVE DecimalDigits(_)
DecimalDigits(n) ==
  IF n < 10 THEN << Digits[n + 1] >>
  ELSE Append(DecimalDigits(n \div 10), Digits[(n % 10) + 1])

\* the template literal `${n}%`
Percent(n) ==
  (IF n = NaN THEN << "N", "a", "N" >> ELSE DecimalDigits(n)) \o << "%" >>

\* parseInt(s) for a string with no leading blanks or sign: the leading
\* decimal digits, NaN when there are none
parseInt(s) ==
  LET n == Cardinality({ i \in DOMAIN s : \A j \in 1..i : IsDigit(s[j]) })
  IN  IF n = 0 THEN NaN ELSE NumericValue(SubSeq(s, 1, n))

\* the object the map callback returns for a job with these scores
ScoredEntry(job, scores) ==
  [id            |-> job.id,
   matchScore    |-> Percent(scores.final),
   keywordScore  |-> Percent(scores.kwScore),
   semanticScore |-> Percent(scores.semScore),
   keywords      |-> job.keywords]

\* the map callback: job => { const scores = finalMatchScore(resumeText, job); ... }
MatchEntry(resumeText, job) == ScoredEntry(job, finalMatchScore(resumeText, job))

\* the value the comparator computes from each entry: parseInt(x.matchScore)
ByMatchScore(mapped) ==
  [i \in DOMAIN mapped |-> [num |-> parseInt(mapped[i].matchScore), item |-> mapped[i]]]

Items(sorted) == [i \in DOMAIN sorted |-> sorted[i].item]

\* jobs.map(job => ...).sort((a, b) => parseInt(b.matchScore) - parseInt(a.matchScore))
RankJobs(jobs, resumeText) ==
  Items(ArraySort(ByMatchScore([i \in DOMAIN jobs |-> MatchEntry(resumeText, jobs[i])])))

\* keywordMatchPercentage tokenizes the resume once the keyword list is not empty
KeywordMatchThrows(resumeText, jobKeywords) ==
  /\ jobKeywords.type = "array" /\ Len(jobKeywords.items) > 0
  /\ TokenizeThrows(resumeText)

\* semanticSimilarity tokenizes both texts before it looks at the tokens
SemanticSimilarityThrows(resumeText, jobDescription) ==
  TokenizeThrows(resumeText) \/ TokenizeThrows(jobDescription)

\* the map callback throws on some job: the handler's catch block answers
RankingThrows(jobs, resumeText) ==
  \E i \in DOMAIN jobs :
    \/ KeywordMatchThrows(resumeText, OrEmptyArray(jobs[i].keywords))
    \/ SemanticSimilarityThrows(resumeText, OrEmpty(jobs[i].description))

\* a ranking that sorts the stored array itself: storedJobs.sort(...)
StoredSortedInPlace(jobs, resumeText) ==
  Items(ArraySort([i \in DOMAIN jobs |->
          [num |-> parseInt(MatchEntry(resumeText, jobs[i]).matchScore),
           item |-> jobs[i]]]))

\* what storedJobs holds after a ranking: .map builds a new array and .sort
\* reorders that array, so the stored one is left as it was
StoredAfterRanking(jobs, resumeText) == jobs

(***************************************************************************)
(* Job fetching.                                                           *)
(***************************************************************************)
MAX_JOBS == 30

\* uuidv4(): a fresh identifier; the one made for the k-th raw job of a
\* response is distinct from the API's ids and from the others of that fetch
uuidv4(k) == 1000 + k

\* j.description || j.job_description || j.contents || ''
RawDescription(j) ==
  IF ~Falsy(j.description) THEN j.description
  ELSE IF ~Falsy(j.job_description) THEN j.job_description
  ELSE OrEmpty(j.contents)

\* the record the map callback of fetchJobs builds (id 0: the API gave none)
IngestJob(j, k) ==
  LET description == RawDescription(j)
  IN  [id          |-> IF j.id # 0 THEN j.id ELSE uuidv4(k),
       description |-> description,
       keywords    |-> JsArray(extractKeywords(description, 25))]

\* (resp.data && resp.data.jobs) || []
JobsRaw(resp) == OrEmptyArray(resp).items

\* the map without the slice: every raw job is ingested
BuildJobsUnsliced(resp) ==
  [k \in DOMAIN JobsRaw(resp) |-> IngestJob(JobsRaw(resp)[k], k)]

\* jobsRaw.slice(0, MAX_JOBS).map(...)
BuildJobs(resp) ==
  LET raw == Slice(JobsRaw(resp), MAX_JOBS)
  IN  [k \in DOMAIN raw |-> IngestJob(raw[k], k)]

\* the map callback throws on a description that is not a string
ResponseThrows(resp) ==
  LET raw == Slice(JobsRaw(resp), MAX_JOBS)
  IN  \E k \in DOMAIN raw : TokenizeThrows(RawDescription(raw[k]))

\* the new jobs written over the stored array element by element
InstallJobsInPlace(old, jobs) == jobs \o SubSeq(old, Len(jobs) + 1, Len(old))

\* storedJobs = jobs
InstallJobs(old, jobs) == jobs

\* a catch block that resets the store
StoredAfterErrorCleared(old) == << >>

\* the catch block logs and returns 0: it assigns nothing to storedJobs
StoredAfterError(old) == old

(***************************************************************************)
(* Inputs.                                                                 *)
(***************************************************************************)
Word_Design == << "D", "e", "s", "i", "g", "n" >>
Word_remote == << "r", "e", "m", "o", "t", "e" >>
Word_365 == << "3", "6", "5" >>
Word_100 == << "1", "0", "0" >>
Word_the == << "t", "h", "e" >>
Word_nodejs == << "n", "o", "d", "e", ".", "j", "s", "," >>
Word_constructor == << "c", "o", "n", "s", "t", "r", "u", "c", "t", "o", "r" >>

\* the words w[1], ..., w[n] with one blank between them
RECURSIVE JoinWords(_)
JoinWords(ws) ==
  IF ws = << >> THEN << >>
  ELSE IF Len(ws) = 1 THEN ws[1]
  ELSE JoinWords(SubSeq(ws, 1, Len(ws) - 1)) \o << " " >> \o ws[Len(ws)]

\* the texts of at most n words over a pool of words
TextsOver(pool, n) == { JoinWords(ws) : ws \in UNION { [1..k -> pool] : k \in 0..n } }

\* texts handed to extractKeywords
KeywordTexts ==
  TextsOver({ Word_Design, Word_remote, Word_365, Word_100, Word_the, Word_nodejs,
              Word_constructor },
            MaxWords)

\* resume texts of the scoring runs
DocTexts ==
  TextsOver({ Word_Design, Word_remote, Word_the, Word_constructor }, MaxDocWords)

\* a description of 26 distinct tokens: k followed by two letters
ManyTokensText ==
  JoinWords([i \in 1..26 |-> << "k", LowerCase[((i - 1) \div 6) + 1], LowerCase[((i - 1) % 6) + 1] >>])

\* job descriptions of the scoring runs
JobDescriptions ==
  { JsNull,
    JsStr(<< >>),
    JsStr(Word_the),
    JsStr(JoinWords(<< Word_Design, Word_remote >>)),
    JsStr(JoinWords(<< Word_remote, Word_remote, Word_Design >>)),
    JsStr(JoinWords(<< Word_constructor, Word_remote >>)) }

Token_design == << "d", "e", "s", "i", "g", "n" >>

\* 40 keywords, 23 of them `remote`
FortyKeywords == [i \in 1..40 |-> IF i <= 23 THEN Word_remote ELSE Token_design]

\* keyword lists handed to keywordMatchPercentage
KeywordLists ==
  { JsUndefined, JsArray(FortyKeywords) } \cup
  { JsArray(ks) : ks \in UNION { [1..k -> { Word_remote, Token_design, Word_constructor }]
                                   : k \in 0..MaxWords } }

\* numeric vectors handed to cosineSimilarity
Vectors == UNION { [1..k -> { NumInt(0), NumInt(1), NumInt(2) }] : k \in 0..MaxVecLen }

\* raw jobs of the API
RawJobs ==
  { [id |-> 7, description |-> JsStr(JoinWords(<< Word_Design, Word_remote >>)),
     job_description |-> JsNull, contents |-> JsNull],
    [id |-> 0, description |-> JsNull,
     job_description |-> JsNull, contents |-> JsNull],
    [id |-> 9, description |-> JsNumber,
     job_description |-> JsNull, contents |-> JsNull] }

\* a response of 31 raw jobs, most of them without a description; the
\* second one has more than 25 distinct tokens
LongResponse ==
  JsArray([k \in 1..(MAX_JOBS + 1) |->
             [id |-> 100 + k,
              description |->
                IF k = 4 THEN JsStr(JoinWords(<< Word_constructor, Word_remote >>))
                ELSE IF k = 5 THEN JsStr(JoinWords(<< Word_Design, Word_remote >>))
                ELSE JsNull,
              job_description |-> IF k = 2 THEN JsStr(ManyTokensText) ELSE JsNull,
              contents |-> IF k = 3 THEN JsStr(Word_remote) ELSE JsNull]])

\* resp.data.jobs of the responses axios can deliver
Responses ==
  { JsUndefined, LongResponse } \cup
  { JsArray(js) : js \in UNION { [1..k -> RawJobs] : k \in 0..MaxRespJobs } }

\* req.body.resumeText of POST /match
MatchBodies ==
  { JsNull, JsNumber, JsStr(Word_Design),
    JsStr(JoinWords(<< Word_constructor, Word_remote >>)) }

\* what text extraction gives for an uploaded file (data.text, result.value)
ExtractedTexts == { JsNull, JsStr(Word_remote), JsStr(JoinWords(<< Word_Design, << "k", "a", "a" >> >>)) }

\* uploaded files: none, or the mimetype and the extension of the file
UploadedFiles ==
  { [present |-> FALSE, mimetype |-> "", ext |-> ""],
    [present |-> TRUE, mimetype |-> "application/pdf", ext |-> ".pdf"],
    [present |-> TRUE, mimetype |-> "application/octet-stream", ext |-> ".docx"],
    [present |-> TRUE, mimetype |-> "text/plain", ext |-> ".txt"] }

(***************************************************************************)
(* State.                                                                  *)
(***************************************************************************)
VARIABLES
  storedJobs,   \* let storedJobs = []
  lastFetchAt,  \* let lastFetchAt = null (0), or the time of the last fetch
  fetching,     \* fetchJobs calls waiting for axios.get
  extracting,   \* POST /upload-resume requests waiting for pdfParse / mammoth
  output,       \* the last thing a handler gave back: an HTTP response, or
                \* the value fetchJobs resolved to
  call          \* a direct call of one of the scoring functions

vars == << storedJobs, lastFetchAt, fetching, extracting, output, call >>

server == << storedJobs, lastFetchAt, fetching, extracting, output >>

NoOutput ==
  [kind |-> "none", status |-> 0, resume |-> JsNull, results |-> << >>,
   preview |-> << >>, value |-> 0, log |-> "none"]

\* an HTTP exchange: the resume text the handler scored, and what it answered
\* with res.status(s).json({ error }) or res.json({ results })
HttpResponse(kind, status, resume, results, preview) ==
  [kind |-> kind, status |-> status, resume |-> resume, results |-> results,
   preview |-> preview, value |-> 0, log |-> "none"]

\* the value an `await fetchJobs()` gets, and the line fetchJobs logged:
\* console.log(`Fetched ...`) or console.error('Job fetch failed:', ...)
FetchResolved(n, log) ==
  [kind |-> "fetchJobs", status |-> 0, resume |-> JsNull, results |-> << >>,
   preview |-> << >>, value |-> n, log |-> log]

NoCall == [fn |-> "none", args |-> << >>, outcome |-> "none", ret |-> 0]

InitServer ==
  /\ storedJobs = << >>
  /\ lastFetchAt = 0
  /\ fetching = 0
  /\ extracting = 0
  /\ output = NoOutput

Init == InitServer /\ call = NoCall

(***************************************************************************)
(* fetchJobs.                                                              *)
(***************************************************************************)
\* fetchJobs() up to `await axios.get(url, { timeout: 15000 })`: the call at
\* start-up and the ones cron schedules
FetchJobsCall ==
  /\ fetching < MaxFetches
  /\ fetching' = fetching + 1
  /\ UNCHANGED << storedJobs, lastFetchAt, extracting, output, call >>

\* axios.get resolves with resp: the rest of the try block, or the catch
\* block when the map callback throws
FetchJobsResponse(resp) ==
  /\ fetching > 0
  /\ fetching' = fetching - 1
  /\ IF ResponseThrows(resp)
       THEN /\ output' = FetchResolved(0, "Job fetch failed")
            /\ storedJobs' = StoredAfterError(storedJobs)
            /\ UNCHANGED lastFetchAt
       ELSE LET jobs == BuildJobs(resp)
            IN  /\ storedJobs' = InstallJobs(storedJobs, jobs)
                \* new Date(): not before the time of an earlier fetch
                /\ lastFetchAt' \in { t \in 1..MaxClock : t >= lastFetchAt }
                /\ output' = FetchResolved(Len(jobs), "Fetched")
  /\ UNCHANGED << extracting, call >>

\* axios.get rejects (network error, timeout, HTTP error): the catch block
FetchJobsError ==
  /\ fetching > 0
  /\ fetching' = fetching - 1
  /\ output' = FetchResolved(0, "Job fetch failed")
  /\ storedJobs' = StoredAfterError(storedJobs)
  /\ UNCHANGED << lastFetchAt, extracting, call >>

(***************************************************************************)
(* POST /match.                                                            *)
(***************************************************************************)
\* body is req.body.resumeText
PostMatch(body) ==
  /\ IF Falsy(body)
       THEN /\ output' = HttpResponse("match", 400, JsNull, << >>, << >>)
            /\ UNCHANGED storedJobs
       ELSE IF RankingThrows(storedJobs, body)
         THEN /\ output' = HttpResponse("match", 500, JsNull, << >>, << >>)
              /\ UNCHANGED storedJobs
         ELSE /\ output' = HttpResponse("match", 200, body, RankJobs(storedJobs, body), << >>)
              /\ storedJobs' = StoredAfterRanking(storedJobs, body)
  /\ UNCHANGED << lastFetchAt, fetching, extracting, call >>

(***************************************************************************)
(* POST /upload-resume.                                                    *)
(***************************************************************************)
SupportedFile(file) ==
  \/ file.mimetype \in
       { "application/pdf",
         "application/vnd.openxmlformats-officedocument.wordprocessingml.document",
         "application/msword" }
  \/ file.ext \in { ".pdf", ".docx", ".doc" }

\* the handler up to its await (pdfParse or mammoth.extractRawText), or to
\* the 400 it answers without one
UploadResume(file) ==
  /\ extracting < MaxUploads
  /\ IF file.present /\ SupportedFile(file)
       THEN /\ extracting' = extracting + 1
            /\ UNCHANGED output
       ELSE /\ output' = HttpResponse("upload", 400, JsNull, << >>, << >>)
            /\ UNCHANGED extracting
  /\ UNCHANGED << storedJobs, lastFetchAt, fetching, call >>

\* resumeText.substring(0, 300)
Preview(s) == SubSeq(s, 1, IF Len(s) < 300 THEN Len(s) ELSE 300)

\* the extraction resolves with text: the rest of the handler
UploadExtracted(text) ==
  /\ extracting > 0
  /\ extracting' = extracting - 1
  /\ LET resumeText == OrEmpty(text)
     IN  /\ output' = HttpResponse("upload", 200, resumeText,
                                   RankJobs(storedJobs, resumeText),
                                   Preview(resumeText.chars))
         /\ storedJobs' = StoredAfterRanking(storedJobs, resumeText)
  /\ UNCHANGED << lastFetchAt, fetching, call >>

\* the extraction rejects (a file that is not what its type says)
UploadExtractionFails ==
  /\ extracting > 0
  /\ extracting' = extracting - 1
  /\ output' = HttpResponse("upload", 500, JsNull, << >>, << >>)
  /\ UNCHANGED << storedJobs, lastFetchAt, fetching, call >>

Next ==
  \/ FetchJobsCall
  \/ \E resp \in Responses : FetchJobsResponse(resp)
  \/ FetchJobsError
  \/ \E body \in MatchBodies : PostMatch(body)
  \/ \E file \in UploadedFiles : UploadResume(file)
  \/ \E text \in ExtractedTexts : UploadExtracted(text)
  \/ UploadExtractionFails

Spec == Init /\ [][Next]_vars

(***************************************************************************)
(* Direct calls of the keyword extractor.                                  *)
(***************************************************************************)
Pending(fn, args) == [fn |-> fn, args |-> args, outcome |-> "pending", ret |-> 0]

Returned(c, value) == [c EXCEPT !.outcome = "returned", !.ret = value]

Threw(c) == [c EXCEPT !.outcome = "threw"]

InitKeywords ==
  /\ InitServer
  /\ call \in { Pending("extractKeywords", << JsStr(t), limit >>) :
                  t \in KeywordTexts, limit \in 0..MaxLimit }

CallExtractKeywords ==
  /\ call.fn = "extractKeywords" /\ call.outcome = "pending"
  /\ call' = Returned(call, extractKeywords(call.args[1], call.args[2]))
  /\ UNCHANGED server

NextKeywords == CallExtractKeywords

SpecKeywords == InitKeywords /\ [][NextKeywords]_vars

(***************************************************************************)
(* Direct calls of the scoring functions.                                  *)
(***************************************************************************)
ResumeValues == { JsNull } \cup { JsStr(t) : t \in DocTexts }

\* job records: any description, with no keywords, or the keywords
\* fetchJobs would store for it
ScoredJobs ==
  { [id |-> 1, description |-> d, keywords |-> k] :
      d \in JobDescriptions,
      k \in { JsUndefined,
              JsArray(extractKeywords(JsStr(JoinWords(<< Word_Design, Word_remote >>)), 25)) } }

InitScore ==
  /\ InitServer
  /\ \/ call \in { Pending("semanticSimilarity", << r, d >>) :
                     r \in ResumeValues \cup { JsNumber }, d \in JobDescriptions }
     \/ call \in { Pending("cosineSimilarity", << a, b >>) :
                     a \in Vectors, b \in Vectors }
     \/ call \in { Pending("keywordMatchPercentage", << r, ks >>) :
                     r \in ResumeValues, ks \in KeywordLists }
     \/ call \in { Pending("finalMatchScore", << r, job >>) :
                     r \in ResumeValues, job \in ScoredJobs }

CallSemanticSimilarity ==
  /\ call.fn = "semanticSimilarity" /\ call.outcome = "pending"
  /\ call' = IF SemanticSimilarityThrows(call.args[1], call.args[2])
               THEN Threw(call)
               ELSE Returned(call, semanticSimilarity(call.args[1], call.args[2]))
  /\ UNCHANGED server

CallCosineSimilarity ==
  /\ call.fn = "cosineSimilarity" /\ call.outcome = "pending"
  /\ call' = Returned(call, cosineSimilarity(call.args[1], call.args[2]))
  /\ UNCHANGED server

CallKeywordMatchPercentage ==
  /\ call.fn = "keywordMatchPercentage" /\ call.outcome = "pending"
  /\ call' = Returned(call, keywordMatchPercentage(call.args[1], call.args[2]))
  /\ UNCHANGED server

CallFinalMatchScore ==
  /\ call.fn = "finalMatchScore" /\ call.outcome = "pending"
  /\ call' = Returned(call, finalMatchScore(call.args[1], call.args[2]))
  /\ UNCHANGED server

NextScore ==
  \/ CallSemanticSimilarity
  \/ CallCosineSimilarity
  \/ CallKeywordMatchPercentage
  \/ CallFinalMatchScore

SpecScore == InitScore /\ [][NextScore]_vars

(***************************************************************************)
(* Properties of the scoring functions.                                    *)
(***************************************************************************)
CallReturned(fn) == call.fn = fn /\ call.outcome = "returned"

CallEnded(fn) == call.fn = fn /\ call.outcome # "pending"

\* an integer percentage, which NaN is not
IsPercentage(n) == n # NaN /\ n \in 0..100

\* C1: for every resume text and every job record, finalMatchScore returns
\* {final, kwScore, semScore} where each value is an integer in [0,100] and
\* final = round(0.4 * kwScore + 0.6 * semScore).
C1_FinalScoreIsWeightedPercentage ==
  CallReturned("finalMatchScore") =>
    /\ IsPercentage(call.ret.final)
    /\ IsPercentage(call.ret.kwScore)
    /\ IsPercentage(call.ret.semScore)
    /\ 10 * call.ret.final <= 4 * call.ret.kwScore + 6 * call.ret.semScore + 5
    /\ 10 * call.ret.final >  4 * call.ret.kwScore + 6 * call.ret.semScore - 5

\* how many entries of ks occur among the tokens of the resume
MatchedCount(resumeText, ks) ==
  Cardinality({ i \in DOMAIN ks : ks[i] \in Range(cleanAndTokenize(resumeText)) })

\* round(100 * m / n): the nearest integer, halves upwards
ExactRoundedPercentage(m, n) == (200 * m + n) \div (2 * n)

\* C5: keywordMatchPercentage returns round(100 * matchedCount / length) of
\* the keyword sequence, 0 when the sequence is empty or absent, 100 when
\* every keyword occurs among the resume's tokens and 0 when none does.
C5_KeywordPercentageIsExactRatio ==
  CallReturned("keywordMatchPercentage") =>
    LET resumeText == call.args[1]
        ks         == OrEmptyArray(call.args[2]).items
    IN  call.ret = IF ks = << >> THEN 0
                   ELSE ExactRoundedPercentage(MatchedCount(resumeText, ks), Len(ks))

\* the weight the extractor's rule accumulates for token t of a token sequence
AccumulatedWeight(tokens, t) ==
  Cardinality({ i \in DOMAIN tokens : tokens[i] = t }) *
    (IF t \in ART_KEYWORDS THEN 4 ELSE 1)

FirstEncountered(tokens, t) ==
  CHOOSE i \in DOMAIN tokens : tokens[i] = t /\ \A j \in 1..(i - 1) : tokens[j] # t

\* C6: for every text and limit >= 0, extractKeywords returns at most limit
\* distinct tokens in order of non-increasing accumulated weight (4 per
\* occurrence of a domain-vocabulary token, 1 otherwise), and tokens of equal
\* weight in the order they were first encountered, digit-only tokens included.
C6_KeywordsByWeightThenFirstSeen ==
  CallReturned("extractKeywords") =>
    LET tokens == cleanAndTokenize(call.args[1])
        limit  == call.args[2]
        out    == call.ret
    IN  /\ Len(out) <= limit
        /\ \A i \in DOMAIN out : out[i] \in Range(tokens)
        /\ \A i, j \in DOMAIN out : i < j =>
             /\ out[i] # out[j]
             /\ AccumulatedWeight(tokens, out[i]) >= AccumulatedWeight(tokens, out[j])
             /\ AccumulatedWeight(tokens, out[i]) = AccumulatedWeight(tokens, out[j])
                  => FirstEncountered(tokens, out[i]) < FirstEncountered(tokens, out[j])

\* the text is empty, null, or has no token that survives normalization
NoTokens(v) == Falsy(v) \/ (v.type = "string" /\ cleanAndTokenize(v) = << >>)

ZeroMagnitude(vec) == \A i \in DOMAIN vec : vec[i] = NumInt(0)

\* C7: degenerate inputs raise no error and give no NaN: semanticSimilarity
\* returns 0 whenever the resume or the description is empty, null or without
\* tokens, and cosineSimilarity returns 0 whenever a vector has magnitude zero.
C7_DegenerateInputsScoreZero ==
  /\ (/\ CallEnded("semanticSimilarity")
      /\ call.args[1].type \in { "null", "string" }
      /\ call.args[2].type \in { "null", "string" }
      /\ NoTokens(call.args[1]) \/ NoTokens(call.args[2]))
       => (call.outcome = "returned" /\ call.ret = 0)
  /\ (/\ CallEnded("cosineSimilarity")
      /\ ZeroMagnitude(call.args[1]) \/ ZeroMagnitude(call.args[2]))
       => (call.outcome = "returned" /\ call.ret = QuotientZero)

\* a resume with tokens scored against a description of stop words only
C7_Witness ==
  /\ CallReturned("semanticSimilarity")
  /\ cleanAndTokenize(call.args[1]) # << >>
  /\ ~Falsy(call.args[2]) /\ cleanAndTokenize(call.args[2]) = << >>
  /\ call.ret = 0

\* C8: given two vectors of different lengths, cosineSimilarity fails fast
\* with an assertion; it never returns a number computed from a truncated or
\* padded vector, and never NaN.
C8_LengthMismatchFailsFast ==
  (CallEnded("cosineSimilarity") /\ Len(call.args[1]) # Len(call.args[2]))
    => call.outcome = "threw"

(***************************************************************************)
(* Properties of the server.                                               *)
(***************************************************************************)
\* the complete collections a finished fetch can produce, and the initial one
Collections ==
  { << >> } \cup { BuildJobs(resp) : resp \in { r \in Responses : ~ResponseThrows(r) } }

\* the handler answered 200 with a result list
Ranked(out) == out.kind \in { "match", "upload" } /\ out.status = 200

\* the final score the comparator reads off an entry
FinalOf(entry) == parseInt(entry.matchScore)

\* a >= b on numbers, which no comparison with NaN satisfies
AtLeast(a, b) == a # NaN /\ b # NaN /\ a >= b

WithFinal(entries, s) == SelectSeq(entries, LAMBDA e : FinalOf(e) = s)

\* C2: the result list of a ranking call (POST /match, POST /upload-resume)
\* has exactly one entry per stored job, in order of non-increasing final
\* score, and jobs with equal final score keep their order in the input.
C2_RankingSortedAndStable ==
  [][ (output' # output /\ Ranked(output')) =>
        LET results == output'.results
            mapped  == [i \in DOMAIN storedJobs |->
                          MatchEntry(output'.resume, storedJobs[i])]
        IN  /\ Len(results) = Len(mapped)
            /\ \A i, j \in DOMAIN results :
                 i < j => AtLeast(FinalOf(results[i]), FinalOf(results[j]))
            /\ \A k \in DOMAIN mapped :
                 WithFinal(results, FinalOf(mapped[k])) =
                   WithFinal(mapped, FinalOf(mapped[k])) ]_vars

Occurrences(seq, e) == Cardinality({ i \in DOMAIN seq : seq[i] = e })

\* the entries are those of the jobs of coll, each once, in some order
EntriesOf(results, resumeText, coll) ==
  LET mapped == [i \in DOMAIN coll |-> MatchEntry(resumeText, coll[i])]
  IN  /\ Len(results) = Len(mapped)
      /\ \A i \in DOMAIN mapped :
           Occurrences(results, mapped[i]) = Occurrences(mapped, mapped[i])

\* C3: under any interleaving of fetchJobs with ranking calls (the upload
\* handler suspends on text extraction before it scores), all entries of one
\* result list come from one complete collection, the one a finished fetch
\* produced or the initial empty one; never from a mixture of two
\* collections or a partially built one.
C3_RankingScoresOneSnapshot ==
  Ranked(output) =>
    \E coll \in Collections : EntriesOf(output.results, output.resume, coll)

\* an upload that was answered with scored jobs while a fetch was in flight
C3_Witness ==
  /\ output.kind = "upload" /\ output.status = 200
  /\ output.results # << >>
  /\ fetching > 0

\* C4: a ranking call leaves the stored job collection as it was (the same
\* records in the same order) and does not modify lastFetchAt; only the
\* freshly built result list is sorted.
C4_RankingLeavesStoreUnchanged ==
  [][ (output' # output /\ output'.kind \in { "match", "upload" }) =>
        (storedJobs' = storedJobs /\ lastFetchAt' = lastFetchAt) ]_vars

\* a ranking whose result list is ordered differently from the store
C4_Witness ==
  /\ Ranked(output)
  /\ Len(output.results) = Len(storedJobs)
  /\ \E i \in DOMAIN storedJobs : output.results[i].id # storedJobs[i].id

\* C9: in every reachable state the store holds at most 30 records, and the
\* keywords of each are at most 25 distinct tokens of the record's own
\* description that survived normalization.
C9_StoreAndKeywordsBounded ==
  /\ Len(storedJobs) <= 30
  /\ \A k \in DOMAIN storedJobs :
       LET ks     == storedJobs[k].keywords
           tokens == cleanAndTokenize(storedJobs[k].description)
       IN  /\ ks.type = "array"
           /\ Len(ks.items) <= 25
           /\ \A i, j \in DOMAIN ks.items : i < j => ks.items[i] # ks.items[j]
           /\ \A i \in DOMAIN ks.items :
                /\ ks.items[i] \in Range(tokens)
                /\ Len(ks.items[i]) > 2 /\ ks.items[i] \notin stopWords

\* a full store with a record whose description had more tokens than it keeps
C9_Witness ==
  /\ Len(storedJobs) = 30
  /\ \E k \in DOMAIN storedJobs :
       /\ Len(storedJobs[k].keywords.items) = 25
       /\ Cardinality(Range(cleanAndTokenize(storedJobs[k].description))) > 25

\* C10: fetchJobs never rejects. When the request fails or the response
\* cannot be processed it resolves to 0 and leaves storedJobs and lastFetchAt
\* as they were; when it succeeds it replaces storedJobs by the new
\* collection, updates lastFetchAt and resolves to the number of jobs stored.
C10_FetchResolvesAndKeepsStoreOnFailure ==
  [][ fetching' < fetching =>
        /\ output'.kind = "fetchJobs"
        /\ IF output'.log = "Fetched"
             THEN /\ storedJobs' \in Collections
                  /\ output'.value = Len(storedJobs')
                  /\ lastFetchAt' >= 1 /\ lastFetchAt' >= lastFetchAt
             ELSE /\ output'.value = 0
                  /\ storedJobs' = storedJobs
                  /\ lastFetchAt' = lastFetchAt ]_vars

\* a failed fetch after a successful one: the earlier jobs are still stored
C10_Witness ==
  /\ output.kind = "fetchJobs" /\ output.log = "Job fetch failed"
  /\ output.value = 0
  /\ storedJobs # << >>
  /\ lastFetchAt >= 1

====
